---- MODULE Spec2Model ----
(***************************************************************************)
(* Model of sam_gov_scrapper.py: the SAMGovScraper class                   *)
(* (search_opportunities, save_opportunities, filter_opportunities,        *)
(* print_summary) and main().                                              *)
(*                                                                         *)
(* Python strings that the code inspects (keywords, field values) are      *)
(* sequences of one-character strings, so that lower(), " ".join() and the *)
(* substring operator `in` are computed, not assumed.  JSON values are     *)
(* tagged records; a dict is a function whose DOMAIN is its key set.       *)
(* The posted-date window (lines 37-44) is not modelled.                   *)
(***************************************************************************)
EXTENDS Integers, Sequences, FiniteSets, TLC

VARIABLES
    pc,              \* position of main(): which statement runs next
    opportunities,   \* main's local `opportunities`
    filtered,        \* main's local `filtered_opportunities`
    escaped,         \* the exception that left main(), "none" while there is none
    saves,           \* save_opportunities calls so far, in order, with what the
                     \* filesystem did and the file each left behind
    stdout,          \* summaries printed so far, in order
    requestsSent,    \* number of requests.get calls issued so far
    calls,           \* number of search_opportunities calls made so far
    search,          \* the last search_opportunities call: input and outcome
    filt             \* the last filter_opportunities call: input and outcome

vars == <<pc, opportunities, filtered, escaped, saves, stdout, requestsSent, calls, search, filt>>

----------------------------------------------------------------------------
(* Bounds *)

MaxOpps == 2      \* longest opportunity list drawn as an input
MaxKw == 2        \* longest keyword list drawn as an input
MaxCalls == 2     \* search_opportunities calls made by the call-level driver

----------------------------------------------------------------------------
(* Python str operations *)

Upper == {"A", "D", "J", "P", "S", "W", "N", "O", "R", "Y", "T", "H"}

ToLower == [c \in Upper |->
              CASE c = "A" -> "a" [] c = "D" -> "d" [] c = "J" -> "j"
                [] c = "P" -> "p" [] c = "S" -> "s" [] c = "W" -> "w"
                [] c = "N" -> "n" [] c = "O" -> "o" [] c = "R" -> "r"
                [] c = "Y" -> "y" [] c = "T" -> "t" [] c = "H" -> "h"]

\* str.lower(): every cased character is replaced by its lowercase form
Lower(s) == [i \in 1..Len(s) |-> IF s[i] \in Upper THEN ToLower[s[i]] ELSE s[i]]

\* the operator `sub in s` on two strings
Contains(sub, s) ==
    \E i \in 0..(Len(s) - Len(sub)) : SubSeq(s, i + 1, i + Len(sub)) = sub

RECURSIVE JoinFrom(_, _, _)
JoinFrom(sep, parts, i) ==
    IF i > Len(parts) THEN <<>>
    ELSE IF i = Len(parts) THEN parts[i]
    ELSE parts[i] \o sep \o JoinFrom(sep, parts, i + 1)

\* a join that also puts the separator after the last part
JoinTrailing(sep, parts) ==
    IF parts = <<>> THEN <<>> ELSE JoinFrom(sep, parts, 1) \o sep

\* sep.join(parts)
Join(sep, parts) == JoinFrom(sep, parts, 1)

----------------------------------------------------------------------------
(* JSON values as the code sees them after response.json() *)

JNull == [tag |-> "null"]
JNum(n) == [tag |-> "number", n |-> n]
JStr(s) == [tag |-> "string", s |-> s]
JArr(items) == [tag |-> "array", items |-> items]
JObj(members) == [tag |-> "object", members |-> members]

NoneText == <<"N", "o", "n", "e">>

\* str(v) for a field value: str(None) is "None", str of a string is itself
Str(v) == IF v.tag = "null" THEN NoneText ELSE v.s

\* dict.get(key, default)
Get(d, key, default) == IF key \in DOMAIN d THEN d[key] ELSE default

----------------------------------------------------------------------------
(* filter_opportunities *)

FilterKeys == <<"title", "description", "type", "classificationCode">>

\* lines 128-133: " ".join([str(opp.get(k, "")) ...]).lower()
SearchableText(opp) ==
    Lower(Join(<<" ">>,
               [i \in 1..Len(FilterKeys) |-> Str(Get(opp, FilterKeys[i], JStr(<<>>)))]))

\* any() in place of all()
KeepsAny(opp, must) ==
    \E j \in 1..Len(must) : Contains(Lower(must[j]), SearchableText(opp))

\* lines 136-137: all(keyword.lower() in searchable_text for keyword in ...)
Keeps(opp, must) ==
    \A j \in 1..Len(must) : Contains(Lower(must[j]), SearchableText(opp))

RECURSIVE FilterLoop(_, _, _, _)
\* lines 124-140: the for loop, `acc` is the list `filtered`
FilterLoop(opps, must, i, acc) ==
    IF i > Len(opps) THEN acc
    ELSE FilterLoop(opps, must, i + 1,
                    IF Keeps(opps[i], must) THEN Append(acc, opps[i]) ELSE acc)

RECURSIVE FilterLoopDedup(_, _, _, _)
\* a loop that skips an opportunity already in `filtered`
FilterLoopDedup(opps, must, i, acc) ==
    IF i > Len(opps) THEN acc
    ELSE FilterLoopDedup(opps, must, i + 1,
                    IF Keeps(opps[i], must) /\ \A k \in 1..Len(acc) : acc[k] # opps[i]
                    THEN Append(acc, opps[i]) ELSE acc)

FilterOpportunitiesDedup(opps, must) == FilterLoopDedup(opps, must, 1, <<>>)

\* filter_opportunities(opportunities, must_include_keywords)
FilterOpportunities(opps, must) == FilterLoop(opps, must, 1, <<>>)

----------------------------------------------------------------------------
(* Inputs: opportunities and keyword lists drawn by the specifications *)

SeqsUpTo(S, n) == UNION {[1..k -> S] : k \in 0..n}

Absent == [tag |-> "absent"]

\* the dict holding exactly the keys of r whose value is not Absent
Dict(r) == [k \in {k \in DOMAIN r : r[k] # Absent} |-> r[k]]

PythonAWS == <<"P", "y", "t", "h", "o", "n", " ", "A", "W", "S">>
Java == <<"J", "a", "v", "a">>

TitleValues == {Absent, JNull, JStr(PythonAWS), JStr(Java)}
DescriptionValues == {Absent, JStr(<<"a", "w", "s">>)}

SampleOpps ==
    {Dict([title |-> t, description |-> d]) : t \in TitleValues, d \in DescriptionValues}
    \cup {Dict([title |-> JStr(Java), type |-> JStr(<<"A", "w", "s">>),
                classificationCode |-> JStr(<<"p", "y", "t", "h", "o", "n">>)]),
          Dict([noticeId |-> JStr(<<"7">>), type |-> JNull,
                classificationCode |-> JStr(<<"D">>)])}

FilterWords == {<<"a", "w", "s">>, <<"P", "Y", "T", "H", "O", "N">>, <<"n", "o", "n", "e">>}

NoFilterCall == [called |-> FALSE, opportunities |-> <<>>, must |-> <<>>, result |-> <<>>]

\* the caller invokes filter_opportunities on the arguments it holds
FilterCall ==
    /\ pc = "caller"
    /\ ~filt.called
    /\ filt' = [filt EXCEPT !.called = TRUE,
                            !.result = FilterOpportunities(filt.opportunities, filt.must)]
    /\ UNCHANGED <<pc, opportunities, filtered, escaped, saves, stdout, requestsSent, calls, search>>

----------------------------------------------------------------------------
(* search_opportunities *)

DefaultLimit == 100

KeyText == <<"o", "p", "p", "o", "r", "t", "u", "n", "i", "t", "i", "e", "s",
             "D", "a", "t", "a">>

\* line 47: f'"{k}"'
Quote(k) == <<"\"">> \o k \o <<"\"">>

\* line 47: " OR ".join([f'"{k}"' for k in keywords])
KeywordQuery(keywords) ==
    Join(<<" ", "O", "R", " ">>, [i \in 1..Len(keywords) |-> Quote(keywords[i])])

\* lines 49-55 (api_key and the two dates are left out)
Params(keywords, limit) == [limit |-> limit, keywords |-> KeywordQuery(keywords)]

\* Response.raise_for_status(): HTTPError for 4xx and 5xx, nothing otherwise
RaisesForStatus(status) == 400 <= status /\ status < 600

\* line 73: `"opportunitiesData" in data`, by the type of data; "TypeError" when
\* data is not a container (None, a number)
HasKey(data) ==
    CASE data.tag = "object" -> IF "opportunitiesData" \in DOMAIN data.members
                                THEN "yes" ELSE "no"
      [] data.tag = "array"  -> IF \E i \in 1..Len(data.items) : data.items[i] = JStr(KeyText)
                                THEN "yes" ELSE "no"
      [] data.tag = "string" -> IF Contains(KeyText, data.s) THEN "yes" ELSE "no"
      [] OTHER               -> "TypeError"

\* what the try block (lines 57-77) does with the outcome of requests.get:
\* exc is the exception it raises ("none": it returns ret), log what it printed,
\* gets the number of requests.get calls it made (line 61)
TryBlock(params, outcome) ==
    LET start == <<[line |-> "Making request"], [line |-> "Parameters", params |-> params]>>
    IN  IF outcome.kind # "response"
        THEN [gets |-> 1, exc |-> outcome.kind, ret |-> <<>>, log |-> start, hasResponse |-> FALSE]
        ELSE
        LET r == outcome.response
            log1 == IF r.status # 200
                    THEN Append(start, [line |-> "Error response", text |-> r.body])
                    ELSE start
        IN  IF RaisesForStatus(r.status)
            THEN [gets |-> 1, exc |-> "HTTPError", ret |-> <<>>, log |-> log1, hasResponse |-> TRUE]
            ELSE IF ~r.body.parses
            THEN [gets |-> 1, exc |-> "JSONDecodeError", ret |-> <<>>, log |-> log1, hasResponse |-> FALSE]
            ELSE
            LET data == r.body.value
            IN  CASE HasKey(data) = "TypeError" ->
                       [gets |-> 1, exc |-> "TypeError", ret |-> <<>>, log |-> log1, hasResponse |-> FALSE]
                  [] HasKey(data) = "no" ->
                       [gets |-> 1, exc |-> "none", ret |-> <<>>,
                        log |-> Append(log1, [line |-> "Unexpected response format"]),
                        hasResponse |-> FALSE]
                  [] OTHER ->
                       IF data.tag = "object"
                       THEN [gets |-> 1, exc |-> "none", ret |-> data.members["opportunitiesData"],
                             log |-> log1, hasResponse |-> FALSE]
                       ELSE [gets |-> 1, exc |-> "TypeError", ret |-> <<>>, log |-> log1,
                             hasResponse |-> FALSE]

\* an except clause that names HTTPError alone
RequestExceptionOnlyHTTP == {"HTTPError"}

\* line 79: requests.exceptions.RequestException and its subclasses:
\* ConnectionError, Timeout, HTTPError, and JSONDecodeError (an InvalidJSONError,
\* raised by Response.json() for a body that is not JSON, requests 2.27 and later)
RequestException == {"ConnectionError", "Timeout", "HTTPError", "JSONDecodeError"}

\* a search that sends the request a second time when the first one failed
SearchOpportunitiesRetry(keywords, limit, outcome) ==
    LET params == Params(keywords, limit)
        t == TryBlock(params, outcome)
    IN  IF t.exc \in RequestException
        THEN [params |-> params, gets |-> t.gets + 1, returned |-> TRUE, result |-> <<>>,
              exc |-> "none", log |-> t.log]
        ELSE IF t.exc = "none"
        THEN [params |-> params, gets |-> t.gets, returned |-> TRUE, result |-> t.ret,
              exc |-> "none", log |-> t.log]
        ELSE [params |-> params, gets |-> t.gets, returned |-> FALSE, result |-> <<>>,
              exc |-> t.exc, log |-> t.log]

\* search_opportunities(keywords, days_back, limit) when requests.get ends
\* in `outcome`: gets is the number of requests.get calls made
SearchOpportunities(keywords, limit, outcome) ==
    LET params == Params(keywords, limit)
        t == TryBlock(params, outcome)
    IN  IF t.exc \in RequestException
        THEN \* lines 79-83
             [params |-> params, gets |-> t.gets, returned |-> TRUE, result |-> <<>>,
              exc |-> "none",
              log |-> t.log \o <<[line |-> "Error fetching opportunities", e |-> t.exc]>>
                      \o (IF t.hasResponse
                          THEN <<[line |-> "Response text", text |-> outcome.response.body]>>
                          ELSE <<>>)]
        ELSE IF t.exc = "none"
        THEN [params |-> params, gets |-> t.gets, returned |-> TRUE, result |-> t.ret,
              exc |-> "none", log |-> t.log]
        ELSE [params |-> params, gets |-> t.gets, returned |-> FALSE, result |-> <<>>,
              exc |-> t.exc, log |-> t.log]

----------------------------------------------------------------------------
(* What requests.get can end in *)

OppPython == Dict([title |-> JStr(PythonAWS)])
OppJava == Dict([title |-> JStr(Java)])

ResponseOpps == {OppPython, OppJava}

Statuses == {200, 201, 300, 404, 500}

JsonBodies ==
    {JObj([opportunitiesData |-> d]) : d \in SeqsUpTo(ResponseOpps, MaxOpps)}
    \cup {JObj([other |-> <<>>]), JNull, JNum(5), JArr(<<>>), JArr(<<JStr(KeyText)>>),
          JStr(<<>>), JStr(KeyText)}

Bodies == {[parses |-> TRUE, value |-> v] : v \in JsonBodies}
          \cup {[parses |-> FALSE, value |-> JNull]}

Outcomes ==
    {[kind |-> "ConnectionError"], [kind |-> "Timeout"]}
    \cup {[kind |-> "response", response |-> [status |-> s, body |-> b]] :
             s \in Statuses, b \in Bodies}

SearchWords == {<<"a">>, <<"b", "c">>}

NoSearchCall ==
    [called |-> FALSE, keywords |-> <<>>, outcome |-> [kind |-> "none"],
     params |-> Params(<<>>, DefaultLimit), returned |-> FALSE, result |-> <<>>,
     exc |-> "none", log |-> <<>>]

SearchRecord(K, outcome, r) ==
    [called |-> TRUE, keywords |-> K, outcome |-> outcome, params |-> r.params,
     returned |-> r.returned, result |-> r.result, exc |-> r.exc, log |-> r.log]

\* the caller invokes search_opportunities on the keyword list it holds and
\* requests.get ends in some outcome
SearchCall ==
    /\ pc = "caller"
    /\ calls < MaxCalls
    /\ \E outcome \in Outcomes :
          LET r == SearchOpportunities(search.keywords, DefaultLimit, outcome)
          IN  /\ search' = SearchRecord(search.keywords, outcome, r)
              /\ requestsSent' = requestsSent + r.gets
    /\ calls' = calls + 1
    /\ UNCHANGED <<pc, opportunities, filtered, escaped, saves, stdout, filt>>

----------------------------------------------------------------------------
(* save_opportunities and print_summary *)

\* a save that catches the filesystem's error and returns
SaveOpportunitiesSwallow(opps, prefix, fs) ==
    [exc |-> "none", prefix |-> prefix, fs |-> fs, content |-> opps,
     written |-> fs # "open fails", complete |-> fs = "ok"]

\* save_opportunities(opportunities, filename) when the filesystem does `fs`:
\* "ok", "open fails" (line 104 raises OSError, no file) or "write fails"
\* (line 105 raises OSError, the file is left incomplete); the file's name is
\* the prefix, its timestamp is left out
SaveOpportunities(opps, prefix, fs) ==
    [exc |-> IF fs = "ok" THEN "none" ELSE "OSError",
     prefix |-> prefix, fs |-> fs, content |-> opps,
     written |-> fs # "open fails", complete |-> fs = "ok"]

FsOutcomes == {"ok", "open fails", "write fails"}

\* print_summary(opportunities, title): the header, the count and one entry
\* per opportunity; opp.get(k) prints None for a missing key
PrintSummary(opps, title) ==
    [title |-> title, count |-> Len(opps),
     entries |-> [i \in 1..Len(opps) |->
                    [title |-> Get(opps[i], "title", JNull),
                     noticeId |-> Get(opps[i], "noticeId", JNull),
                     postedDate |-> Get(opps[i], "postedDate", JNull),
                     responseDueDate |-> Get(opps[i], "responseDueDate", JNull)]]]

----------------------------------------------------------------------------
(* main *)

\* line 164
SearchKeywords ==
    << <<"s", "o", "f", "t", "w", "a", "r", "e">>,
       <<"d", "e", "v", "e", "l", "o", "p", "m", "e", "n", "t">>,
       <<"c", "l", "o", "u", "d">> >>

\* line 165
MustInclude == << <<"p", "y", "t", "h", "o", "n">>, <<"a", "w", "s">> >>

\* lines 169-173
MainSearch ==
    /\ pc = "search"
    /\ \E outcome \in Outcomes :
          LET r == SearchOpportunities(SearchKeywords, DefaultLimit, outcome)
          IN  /\ search' = SearchRecord(SearchKeywords, outcome, r)
              /\ requestsSent' = requestsSent + r.gets
              /\ IF r.returned
                 THEN /\ opportunities' = r.result
                      /\ pc' = "save all"
                      /\ UNCHANGED escaped
                 ELSE /\ escaped' = r.exc
                      /\ pc' = "crashed"
                      /\ UNCHANGED opportunities
    /\ calls' = calls + 1
    /\ UNCHANGED <<filtered, saves, stdout, filt>>

\* a save_opportunities call of main and where main goes after it
MainSave(at, opps, prefix, next) ==
    /\ pc = at
    /\ \E fs \in FsOutcomes :
          LET r == SaveOpportunities(opps, prefix, fs)
          IN  /\ saves' = Append(saves, r)
              /\ IF r.exc = "none"
                 THEN pc' = next /\ UNCHANGED escaped
                 ELSE pc' = "crashed" /\ escaped' = r.exc
    /\ UNCHANGED <<opportunities, filtered, stdout, requestsSent, calls, search, filt>>

\* line 176
MainSaveAll == MainSave("save all", opportunities, "all_opportunities", "filter")

\* lines 179-182
MainFilter ==
    /\ pc = "filter"
    /\ filtered' = FilterOpportunities(opportunities, MustInclude)
    /\ filt' = [called |-> TRUE, opportunities |-> opportunities, must |-> MustInclude,
                result |-> filtered']
    /\ pc' = "save filtered"
    /\ UNCHANGED <<opportunities, escaped, saves, stdout, requestsSent, calls, search>>

\* line 185
MainSaveFiltered ==
    MainSave("save filtered", filtered, "filtered_opportunities", "print all")

\* line 188
MainPrintAll ==
    /\ pc = "print all"
    /\ stdout' = Append(stdout, PrintSummary(opportunities, "All Opportunities"))
    /\ pc' = "print filtered"
    /\ UNCHANGED <<opportunities, filtered, escaped, saves, requestsSent, calls, search, filt>>

\* line 189
MainPrintFiltered ==
    /\ pc = "print filtered"
    /\ stdout' = Append(stdout, PrintSummary(filtered, "Filtered Opportunities"))
    /\ pc' = "done"
    /\ UNCHANGED <<opportunities, filtered, escaped, saves, requestsSent, calls, search, filt>>

----------------------------------------------------------------------------
(* Specifications *)

InitMain ==
    /\ opportunities = <<>>
    /\ filtered = <<>>
    /\ escaped = "none"
    /\ saves = <<>>
    /\ stdout = <<>>
    /\ requestsSent = 0
    /\ calls = 0

\* one run of main()
Init ==
    /\ pc = "search"
    /\ InitMain
    /\ search = NoSearchCall
    /\ filt = NoFilterCall

Next ==
    \/ MainSearch
    \/ MainSaveAll
    \/ MainFilter
    \/ MainSaveFiltered
    \/ MainPrintAll
    \/ MainPrintFiltered

Spec == Init /\ [][Next]_vars

\* a caller of the class holds a keyword list and makes search_opportunities calls
InitSearch ==
    /\ pc = "caller"
    /\ InitMain
    /\ \E K \in SeqsUpTo(SearchWords, MaxKw) : search = [NoSearchCall EXCEPT !.keywords = K]
    /\ filt = NoFilterCall

NextSearch == SearchCall

SpecSearch == InitSearch /\ [][NextSearch]_vars

\* a caller of the class holds a list of opportunities and a must-include list
\* and calls filter_opportunities on them
InitFilter ==
    /\ pc = "caller"
    /\ InitMain
    /\ search = NoSearchCall
    /\ \E O \in SeqsUpTo(SampleOpps, MaxOpps), M \in SeqsUpTo(FilterWords, MaxKw) :
          filt = [NoFilterCall EXCEPT !.opportunities = O, !.must = M]

NextFilter == FilterCall

SpecFilter == InitFilter /\ [][NextFilter]_vars

----------------------------------------------------------------------------
(* Claims about search_opportunities, checked under SpecSearch *)

IsResponse(o) == o.kind = "response"

SuccessStatus(status) == 200 <= status /\ status <= 299

\* connection error, timeout, or a body that does not parse as JSON
TransportFailure(o) ==
    \/ o.kind \in {"ConnectionError", "Timeout"}
    \/ IsResponse(o) /\ ~o.response.body.parses

LogHas(log, line) == \E i \in 1..Len(log) : log[i].line = line

\* C1: for every transport-level failure (connection error, timeout, a response
\* body that does not parse as JSON) search_opportunities logs the failure and
\* returns the empty list; no exception leaves the call.
C1_TransportFailureYieldsEmpty ==
    (search.called /\ TransportFailure(search.outcome))
        => /\ search.returned
           /\ search.exc = "none"
           /\ search.result = <<>>
           /\ LogHas(search.log, "Error fetching opportunities")

C1_Witness ==
    /\ search.called
    /\ IsResponse(search.outcome)
    /\ search.outcome.response.status = 200
    /\ ~search.outcome.response.body.parses
    /\ search.returned

\* C2: for every response whose status is not a success status (not 2xx),
\* search_opportunities logs the response body before it handles the failure,
\* and what it returns is the empty list, never data parsed from the body.
C2_NonSuccessStatusIsFailure ==
    (search.called /\ search.returned /\ IsResponse(search.outcome)
                   /\ ~SuccessStatus(search.outcome.response.status))
        => /\ search.result = <<>>
           /\ \E i \in 1..Len(search.log) :
                 /\ search.log[i].line = "Error response"
                 /\ search.log[i].text = search.outcome.response.body
                 /\ \A j \in 1..Len(search.log) :
                       search.log[j].line = "Error fetching opportunities" => i < j

\* C4: on a success response whose body parsed, search_opportunities returns
\* the empty list without raising when the body has no top-level key
\* opportunitiesData, and otherwise returns exactly the value at that key.
C4_SuccessResponseResult ==
    (search.called /\ IsResponse(search.outcome)
                   /\ SuccessStatus(search.outcome.response.status)
                   /\ search.outcome.response.body.parses)
        => LET data == search.outcome.response.body.value
           IN  /\ search.returned
               /\ search.exc = "none"
               /\ search.result =
                     IF data.tag = "object" /\ "opportunitiesData" \in DOMAIN data.members
                     THEN data.members["opportunitiesData"]
                     ELSE <<>>

\* C8: every call of search_opportunities issues exactly one HTTP GET, whatever
\* its outcome: after n calls exactly n requests have been sent.
C8_OneRequestPerCall == requestsSent = calls

C8_Witness ==
    /\ calls >= 2
    /\ requestsSent = calls
    /\ search.outcome.kind = "ConnectionError"

RECURSIVE QuotedStart(_, _)
\* where the i-th quoted keyword starts in the query (0-based): every earlier
\* keyword takes its length, two quotes and a four-character separator
QuotedStart(K, i) == IF i = 1 THEN 0 ELSE QuotedStart(K, i - 1) + Len(K[i - 1]) + 2 + 4

\* C9: the keywords parameter is the elements of K in order, each wrapped in
\* double quotes, with " OR " between consecutive elements and nothing before
\* the first or after the last; for K empty it is the empty string.
C9_KeywordQueryShape ==
    search.called =>
        LET K == search.keywords
            q == search.params.keywords
        IN  /\ Len(q) = IF K = <<>> THEN 0
                        ELSE QuotedStart(K, Len(K)) + Len(K[Len(K)]) + 2
            /\ \A i \in 1..Len(K) :
                  LET at == QuotedStart(K, i)
                      n == Len(K[i])
                  IN  /\ q[at + 1] = "\""
                      /\ SubSeq(q, at + 2, at + 1 + n) = K[i]
                      /\ q[at + n + 2] = "\""
                      /\ i < Len(K) =>
                            SubSeq(q, at + n + 3, at + n + 6) = <<" ", "O", "R", " ">>

C9_Witness ==
    /\ search.called
    /\ Len(search.keywords) = 2
    /\ search.keywords[1] # search.keywords[2]
    /\ search.params.keywords # <<>>

----------------------------------------------------------------------------
(* Claims about filter_opportunities, checked under SpecFilter *)

Count(seq, x) == Cardinality({i \in 1..Len(seq) : seq[i] = x})

Range(seq) == {seq[i] : i \in 1..Len(seq)}

SameLetter(a, b) ==
    \/ a = b
    \/ a \in Upper /\ ToLower[a] = b
    \/ b \in Upper /\ ToLower[b] = a
    \/ a \in Upper /\ b \in Upper /\ ToLower[a] = ToLower[b]

\* kw occurs in text at some offset, letters compared without regard to case
OccursIgnoringCase(kw, text) ==
    \E at \in 0..(Len(text) - Len(kw)) :
        \A p \in 1..Len(kw) : SameLetter(kw[p], text[at + p])

\* the string form of field k of opp; `missing` stands for a missing key and
\* `null` for a null value
FieldText(opp, k, missing, null) ==
    IF k \notin DOMAIN opp THEN missing
    ELSE IF opp[k] = JNull THEN null
    ELSE opp[k].s

\* title, description, type and classificationCode joined by single spaces
FieldsText(opp, missing, null) ==
    FieldText(opp, "title", missing, null) \o <<" ">>
    \o FieldText(opp, "description", missing, null) \o <<" ">>
    \o FieldText(opp, "type", missing, null) \o <<" ">>
    \o FieldText(opp, "classificationCode", missing, null)

HasMissingOrNullField(opp) ==
    \E i \in 1..Len(FilterKeys) :
        FilterKeys[i] \notin DOMAIN opp \/ opp[FilterKeys[i]] = JNull

\* C3: a missing or null field contributes the empty string: the decision on
\* an opportunity with such fields is the one made with those fields set to "".
C3_MissingOrNullIsEmpty ==
    filt.called =>
        \A x \in Range(filt.opportunities) :
            HasMissingOrNullField(x) =>
                (x \in Range(filt.result)
                    <=> \A j \in 1..Len(filt.must) :
                           OccursIgnoringCase(filt.must[j], FieldsText(x, <<>>, <<>>)))

\* C5: an opportunity is kept if and only if every must-include keyword occurs,
\* case-insensitively, in the space-joined string forms of its title,
\* description, type and classificationCode: every occurrence of an opportunity
\* with all keywords is kept and none of one lacking a keyword is.
C5_KeptIffAllKeywords ==
    filt.called =>
        \A x \in Range(filt.opportunities) :
            Count(filt.result, x) =
                IF \A j \in 1..Len(filt.must) :
                      OccursIgnoringCase(filt.must[j], FieldsText(x, <<>>, NoneText))
                THEN Count(filt.opportunities, x)
                ELSE 0

C5_Witness ==
    /\ filt.called
    /\ filt.must = << <<"P", "Y", "T", "H", "O", "N">>, <<"a", "w", "s">> >>
    /\ Len(filt.opportunities) = 2
    /\ filt.opportunities[2] = OppPython
    /\ filt.result = <<OppPython>>
    /\ filt.opportunities[1] # filt.opportunities[2]

\* r is o with some elements left out, the others in their order
IsSubsequence(r, o) ==
    \E f \in [1..Len(r) -> 1..Len(o)] :
        /\ \A i \in 1..Len(r) : r[i] = o[f[i]]
        /\ \A i, j \in 1..Len(r) : i < j => f[i] < f[j]

\* C6: the result is a subsequence of the input in the input's order, equal
\* opportunities are kept or dropped together (no deduplication), and with an
\* empty must-include list the result is the input.
C6_OrderedSubsequence ==
    filt.called =>
        /\ IsSubsequence(filt.result, filt.opportunities)
        /\ \A x \in Range(filt.opportunities) :
              Count(filt.result, x) \in {0, Count(filt.opportunities, x)}
        /\ filt.must = <<>> => filt.result = filt.opportunities

C6_Witness ==
    /\ filt.called
    /\ filt.must # <<>>
    /\ Len(filt.opportunities) = 2
    /\ filt.opportunities[1] = filt.opportunities[2]
    /\ filt.result = filt.opportunities

----------------------------------------------------------------------------
(* Claims about main, checked under Spec *)

SaveFailed(i) == saves[i].fs # "ok"

\* C7: an error of the filesystem during save_opportunities leaves the call and
\* ends the run: once a save has failed, main has stopped on OSError, that save
\* is the last one and nothing is printed; when it is the save of
\* all_opportunities, nothing has been filtered and no filtered_opportunities
\* file exists.
C7_SaveErrorEndsRun ==
    \A i \in 1..Len(saves) :
        SaveFailed(i) =>
            /\ pc = "crashed"
            /\ escaped = "OSError"
            /\ i = Len(saves)
            /\ stdout = <<>>
            /\ saves[i].prefix = "all_opportunities" =>
                  /\ ~filt.called
                  /\ filtered = <<>>
                  /\ \A j \in 1..Len(saves) : saves[j].prefix # "filtered_opportunities"

C7_Witness ==
    /\ Len(saves) = 1
    /\ saves[1].prefix = "all_opportunities"
    /\ saves[1].fs = "write fails"
    /\ saves[1].content = <<OppPython, OppJava>>
    /\ pc = "crashed"

RunEnded == pc \in {"done", "crashed"}

\* the request did not end in a success response with a JSON body
SearchFailed(o) ==
    \/ TransportFailure(o)
    \/ IsResponse(o) /\ ~SuccessStatus(o.response.status)

\* C10: a run of main in which no save fails writes exactly two files, first
\* all_opportunities and then filtered_opportunities, both before any summary
\* is printed; the filtered file holds filter_opportunities of the content of
\* the all file; when the search failed both files hold the empty list.
C10_TwoFilesPerRun ==
    /\ (RunEnded /\ \A i \in 1..Len(saves) : ~SaveFailed(i)) =>
          /\ Len(saves) = 2
          /\ saves[1].prefix = "all_opportunities" /\ saves[1].complete
          /\ saves[2].prefix = "filtered_opportunities" /\ saves[2].complete
          /\ saves[2].content = FilterOpportunities(saves[1].content, MustInclude)
          /\ SearchFailed(search.outcome) =>
                saves[1].content = <<>> /\ saves[2].content = <<>>
    /\ stdout # <<>> => Len(saves) = 2

====
